---- MODULE Spec2Model ----
(***************************************************************************)
(* Model of chip8.c: the font loader, the call stack helpers, the key      *)
(* mapping and main() with its window/event prologue and its               *)
(* fetch-decode-execute loop.                                              *)
(*                                                                         *)
(* Arrays are kept sparse.  `mem` and `display` hold only the cells that   *)
(* have been stored since their `= {0}` initializer, every other cell      *)
(* still reads 0 (MemAt).  The stack's array `m` has no initializer, so a  *)
(* cell that was never stored holds an indeterminate value.                *)
(***************************************************************************)
EXTENDS Integers, Sequences, FiniteSets, TLC

VARIABLES
    loc,          \* position of main(): the statement that runs next
    mem,          \* uint8_t mem[4096], sparse
    ii, jj,       \* loop counters of add_fonts_to_mem
    display,      \* uint8_t display[32][64], sparse
    delay_timer, sound_timer, reg_index,
    pc,           \* uint16_t pc
    interpret,    \* uint8_t interpret
    quit,         \* bool quit
    e,            \* type of the SDL_Event last polled
    instr, op, X, Y, N, NN, NNN,  \* locals of one loop iteration
    console,      \* last line main() wrote to stderr
    retval,       \* value returned by main(), -1 while it runs
    needle, m,    \* struct stack
    last,         \* the last stack call: function, returned value, printed line
    window,       \* SDL_Window *window: "none", "open" or "destroyed"
    userInput,    \* argument of the last char_to_val call
    keyval,       \* value the last char_to_val call returned
    keymsg        \* line the last char_to_val call printed

vars == <<loc, mem, ii, jj, display, delay_timer, sound_timer, reg_index, pc,
          interpret, quit, e, instr, op, X, Y, N, NN, NNN, console, retval,
          needle, m, last, window, userInput, keyval, keymsg>>

mainVars == <<loc, mem, ii, jj, display, delay_timer, sound_timer, reg_index,
              pc, interpret, quit, e, instr, op, X, Y, N, NN, NNN, console,
              retval, window>>

stackVars == <<needle, m, last>>

keyVars == <<userInput, keyval, keymsg>>

----------------------------------------------------------------------------
(* Program constants *)

mem_len == 4096
UINT16_MAX == 65535
U16 == 65536
STACK_LEN == 4096
FONT_BASE == 80
FONT_ROWS == 5
FONT_GLYPHS == 16
PC_START == 512
CLEAR_SCREEN == 224      \* 0x00E0
TAIL_ADDR == 80
TailByteSwapped == 240 \div 16
TAIL_BYTE == 240         \* 0xF0
STACK_CAPACITY == 12     \* "enough space of the stack for 12 successive subroutine calls"

(* Bounds of the model *)

MaxNeedle == 13                  \* pushes are explored up to this depth
PushVals == {0, 514}             \* addresses handed to push_stack
IndetVals == {0, 514}            \* values an unwritten uint16_t cell may show
OobBytes == {0, 224}             \* bytes a read past mem[4095] may show
Nibbles == {0, 1, 14, 15}        \* nibbles of the words given to the decoder
Probe == {79, 80, 160, 512}      \* addresses preset in the font loader's input
MaxKeyCode == 127                \* char_to_val is given the codes -1..MaxKeyCode
BigKeyCodes == {1073741903, 1073741904}  \* SDL keycodes of keys without a character
PixelProbe == {<<0, 0>>, <<0, 63>>, <<15, 31>>, <<31, 0>>, <<31, 63>>}
                                 \* pixels preset in the execute step's input
ExecWords == {224, 0, 238, 4608} \* words given to the execute step on its own

----------------------------------------------------------------------------
(* Bit operations on 16-bit words *)

Low(w, k) == w % k                    \* w & (k - 1), k a power of two
Mask(w, lo, hi) == (w % hi) - (w % lo) \* w & (hi - lo), lo and hi powers of two

(* uint8_t fontData[16][5] *)
fontData ==
    << <<240, 144, 144, 144, 240>>,
       << 32,  96,  32,  32, 112>>,
       <<240,  16, 240, 128, 240>>,
       <<240,  16, 240,  16, 240>>,
       <<144, 144, 240,  16,  16>>,
       <<240, 128, 240,  16, 240>>,
       <<240, 128, 240, 144, 240>>,
       <<240,  16,  32,  64,  64>>,
       <<240, 144, 240, 144, 240>>,
       <<240, 144, 240,  16, 240>>,
       <<240, 144, 240, 144, 144>>,
       <<224, 144, 224, 144, 224>>,
       <<240, 128, 128, 128, 240>>,
       <<224, 144, 144, 144, 224>>,
       <<240, 128, 240, 128, 240>>,
       <<240, 128, 240, 128, 128>> >>

FontByte(k, j) == fontData[k + 1][j + 1]

FontAddrSkewed(k, j) == FONT_BASE + k * (FONT_ROWS - 1) + j

FontAddr(k, j) == FONT_BASE + k * FONT_ROWS + j

(* Sparse arrays *)

MemAt(a) == IF a \in DOMAIN mem THEN mem[a] ELSE 0

Store(f, a, v) == [x \in (DOMAIN f) \cup {a} |-> IF x = a THEN v ELSE f[x]]

ZeroMem == <<>>

display_rows == 32
display_columns == 64

(* display[r][c]; the sparse display is indexed by <<r, c>> *)
DisplayAt(r, c) == IF <<r, c>> \in DOMAIN display THEN display[<<r, c>>] ELSE 0

----------------------------------------------------------------------------
(* main(): state at entry, the initializers of its locals applied *)

StackIdle ==
    /\ needle = 0
    /\ m = <<>>
    /\ last = [fn |-> "none", arg |-> 0, ret |-> 0, msg |-> "", oob |-> FALSE]

MainLocals ==
    /\ ii = 0 /\ jj = 0
    /\ display = <<>>
    /\ delay_timer = 0 /\ sound_timer = 0 /\ reg_index = 0
    /\ pc = PC_START
    /\ interpret = 1
    /\ quit = FALSE
    /\ e = "none"
    /\ instr = 0 /\ op = 0 /\ X = 0 /\ Y = 0 /\ N = 0 /\ NN = 0 /\ NNN = 0
    /\ console = ""
    /\ retval = -1
    /\ window = "none"

KeysIdle == userInput = 0 /\ keyval = 0 /\ keymsg = ""

Init ==
    /\ loc = "add_fonts"
    /\ mem = ZeroMem
    /\ MainLocals
    /\ StackIdle
    /\ KeysIdle

(* One pass of the inner loop body of add_fonts_to_mem *)
add_fonts_to_mem ==
    /\ loc = "add_fonts"
    /\ mem' = Store(mem, FontAddr(ii, jj), FontByte(ii, jj))
    /\ IF jj + 1 < FONT_ROWS
         THEN jj' = jj + 1 /\ ii' = ii /\ loc' = loc
         ELSE /\ jj' = 0
              /\ ii' = ii + 1
              /\ loc' = IF ii + 1 < FONT_GLYPHS THEN loc ELSE "sdl_init"
    /\ UNCHANGED <<display, delay_timer, sound_timer, reg_index, pc, interpret,
                   quit, e, instr, op, X, Y, N, NN, NNN, console, retval>>
    /\ UNCHANGED stackVars
    /\ UNCHANGED <<window, userInput, keyval, keymsg>>

----------------------------------------------------------------------------
(* main(): window and event prologue *)

(* if (SDL_Init(SDL_INIT_VIDEO) != 0) { fprintf; return 1; } *)
main_SDL_Init ==
    /\ loc = "sdl_init"
    /\ \/ loc' = "create_window" /\ UNCHANGED <<console, retval>>
       \/ loc' = "returned" /\ console' = "SDL_Init failed" /\ retval' = 1
    /\ UNCHANGED <<mem, ii, jj, display, delay_timer, sound_timer, reg_index,
                   pc, interpret, quit, e, instr, op, X, Y, N, NN, NNN>>
    /\ UNCHANGED stackVars
    /\ UNCHANGED <<window, userInput, keyval, keymsg>>

(* window = SDL_CreateWindow(...); if (!window) { fprintf; SDL_Quit; return 1; } *)
main_SDL_CreateWindow ==
    /\ loc = "create_window"
    /\ \/ /\ window' = "open"
          /\ loc' = "event_loop"
          /\ UNCHANGED <<console, retval>>
       \/ /\ window' = "none"
          /\ loc' = "returned" /\ console' = "SDL_CreateWindow failed" /\ retval' = 1
    /\ UNCHANGED <<mem, ii, jj, display, delay_timer, sound_timer, reg_index,
                   pc, interpret, quit, e, instr, op, X, Y, N, NN, NNN>>
    /\ UNCHANGED stackVars
    /\ UNCHANGED keyVars

(* the outer event loop with its test inverted, while (quit) *)
main_while_quit ==
    /\ loc = "event_loop"
    /\ loc' = IF quit THEN "poll" ELSE "destroy"
    /\ UNCHANGED <<mem, ii, jj, display, delay_timer, sound_timer, reg_index,
                   pc, interpret, quit, e, instr, op, X, Y, N, NN, NNN,
                   console, retval>>
    /\ UNCHANGED stackVars
    /\ UNCHANGED <<window, userInput, keyval, keymsg>>

(* while (!quit): the test of the outer event loop *)
main_while_not_quit ==
    /\ loc = "event_loop"
    /\ loc' = IF quit THEN "destroy" ELSE "poll"
    /\ UNCHANGED <<mem, ii, jj, display, delay_timer, sound_timer, reg_index,
                   pc, interpret, quit, e, instr, op, X, Y, N, NN, NNN,
                   console, retval>>
    /\ UNCHANGED stackVars
    /\ UNCHANGED <<window, userInput, keyval, keymsg>>

EventTypes == {"SDL_QUIT", "SDL_KEYDOWN"}

(* while (SDL_PollEvent(&e) != 0) { if (e.type == SDL_QUIT) quit = true; } *)
main_SDL_PollEvent ==
    /\ loc = "poll"
    /\ \/ \E t \in EventTypes :
            /\ e' = t
            /\ quit' = IF t = "SDL_QUIT" THEN TRUE ELSE quit
            /\ loc' = loc
       \/ loc' = "event_loop" /\ UNCHANGED <<e, quit>>
    /\ UNCHANGED <<mem, ii, jj, display, delay_timer, sound_timer, reg_index,
                   pc, interpret, instr, op, X, Y, N, NN, NNN, console, retval>>
    /\ UNCHANGED stackVars
    /\ UNCHANGED <<window, userInput, keyval, keymsg>>

(* SDL_DestroyWindow(window); SDL_Quit(); *)
main_SDL_DestroyWindow ==
    /\ loc = "destroy"
    /\ window' = "destroyed"
    /\ loc' = "loop_entry"
    /\ UNCHANGED <<mem, ii, jj, display, delay_timer, sound_timer, reg_index,
                   pc, interpret, quit, e, instr, op, X, Y, N, NN, NNN,
                   console, retval>>
    /\ UNCHANGED stackVars
    /\ UNCHANGED keyVars

----------------------------------------------------------------------------
(* main(): the fetch-decode-execute loop *)

LoopTest == IF interpret # 0 THEN "fetch" ELSE "after_loop"

(* while (interpret), reached from the prologue.  The loop has no side     *)
(* effect (no I/O, no volatile or atomic access) and its controlling       *)
(* expression is not a constant expression, so C11 6.8.5p6 lets a build    *)
(* assume that it terminates and drop it; another build runs it.           *)
main_while_interpret ==
    /\ loc = "loop_entry"
    /\ \/ loc' = LoopTest
       \/ loc' = "after_loop"
    /\ UNCHANGED <<mem, ii, jj, display, delay_timer, sound_timer, reg_index,
                   pc, interpret, quit, e, instr, op, X, Y, N, NN, NNN,
                   console, retval>>
    /\ UNCHANGED stackVars
    /\ UNCHANGED <<window, userInput, keyval, keymsg>>

(* The bytes a read of mem[a] can deliver: the cell, or, past the end of   *)
(* the array, whatever lies behind it.                                     *)
MemRead(a) == IF a < mem_len THEN {MemAt(a)} ELSE OobBytes

NextPcOdd(p) == (p + 1) % U16

(* pc += 2 on a uint16_t *)
NextPc(p) == (p + 2) % U16

(* uint16_t instr = mem[pc] << 8 | mem[pc + 1]; pc += 2;                   *)
(* A read past the array may also fault.                                   *)
main_fetch ==
    /\ loc = "fetch"
    /\ \/ /\ \E hi \in MemRead(pc), lo \in MemRead(pc + 1) :
                instr' = hi * 256 + lo
          /\ pc' = NextPc(pc)
          /\ loc' = "decode"
       \/ /\ pc + 1 >= mem_len
          /\ loc' = "crashed"
          /\ UNCHANGED <<instr, pc>>
    /\ UNCHANGED <<mem, ii, jj, display, delay_timer, sound_timer, reg_index,
                   interpret, quit, e, op, X, Y, N, NN, NNN, console, retval>>
    /\ UNCHANGED stackVars
    /\ UNCHANGED <<window, userInput, keyval, keymsg>>

dec_op(w) == Mask(w, 4096, 65536)     \* instr & 0xF000
dec_X(w) == Mask(w, 256, 4096)        \* instr & 0x0F00
dec_Y(w) == Mask(w, 16, 256)          \* instr & 0x00F0
dec_N(w) == Low(w, 16)                \* instr & 0x000F
dec_NN(w) == Low(w, 256)              \* instr & 0x00FF
dec_NNN(w) == Low(w, 4096)            \* instr & 0x0FFF

main_decode ==
    /\ loc = "decode"
    /\ op' = dec_op(instr)
    /\ X' = dec_X(instr)
    /\ Y' = dec_Y(instr)
    /\ N' = dec_N(instr)
    /\ NN' = dec_NN(instr)
    /\ NNN' = dec_NNN(instr)
    /\ loc' = "execute"
    /\ UNCHANGED <<mem, ii, jj, display, delay_timer, sound_timer, reg_index,
                   pc, interpret, quit, e, instr, console, retval>>
    /\ UNCHANGED stackVars
    /\ UNCHANGED <<window, userInput, keyval, keymsg>>

(* main_execute with the timers counted down once per instruction *)
main_execute_ticking ==
    /\ loc = "execute"
    /\ delay_timer' = (delay_timer + 255) % 256
    /\ sound_timer' = (sound_timer + 255) % 256
    /\ loc' = LoopTest
    /\ UNCHANGED <<mem, ii, jj, display, reg_index, pc, interpret, quit, e,
                   instr, op, X, Y, N, NN, NNN, console, retval>>
    /\ UNCHANGED stackVars
    /\ UNCHANGED <<window, userInput, keyval, keymsg>>

(* switch (instr) { case 0x00E0: break; } and the loop test that follows.  *)
(* The one case has an empty body and there is no default.                 *)
main_execute ==
    /\ loc = "execute"
    /\ IF instr = CLEAR_SCREEN
         THEN UNCHANGED <<display, console>>   \* case 0x00E0: break
         ELSE UNCHANGED <<display, console>>   \* no case matches
    /\ loc' = LoopTest
    /\ UNCHANGED <<mem, ii, jj, delay_timer, sound_timer, reg_index,
                   pc, interpret, quit, e, instr, op, X, Y, N, NN, NNN, retval>>
    /\ UNCHANGED stackVars
    /\ UNCHANGED <<window, userInput, keyval, keymsg>>

(* mem[80] = 0xF0; return 0; *)
main_return ==
    /\ loc = "after_loop"
    /\ mem' = Store(mem, TAIL_ADDR, TAIL_BYTE)
    /\ retval' = 0
    /\ loc' = "returned"
    /\ UNCHANGED <<ii, jj, display, delay_timer, sound_timer, reg_index,
                   pc, interpret, quit, e, instr, op, X, Y, N, NN, NNN, console>>
    /\ UNCHANGED stackVars
    /\ UNCHANGED <<window, userInput, keyval, keymsg>>

Next ==
    \/ add_fonts_to_mem
    \/ main_SDL_Init
    \/ main_SDL_CreateWindow
    \/ main_while_not_quit
    \/ main_SDL_PollEvent
    \/ main_SDL_DestroyWindow
    \/ main_while_interpret
    \/ main_fetch
    \/ main_decode
    \/ main_execute
    \/ main_return

Spec == Init /\ [][Next]_vars

----------------------------------------------------------------------------
(* struct stack { uint16_t m[4096]; uint16_t needle; } and its two helpers. *)
(* `last` records what the caller of the last helper call saw: the         *)
(* function, its argument, the value it returned and the line it printed.  *)

OverflowMsg == "DEBUG: no more space on the stack"
UnderflowMsg == "DEBUG: nothing left to pop on the stack"

(* void push_stack(struct stack *s, uint16_t val) *)
push_stack(val) ==
    /\ needle < MaxNeedle
    /\ IF needle < UINT16_MAX
         THEN /\ m' = IF needle < STACK_LEN THEN Store(m, needle, val) ELSE m
              /\ needle' = (needle + 1) % U16
              /\ last' = [fn |-> "push", arg |-> val, ret |-> 0, msg |-> "",
                          oob |-> ~(needle < STACK_LEN)]
         ELSE /\ last' = [fn |-> "push", arg |-> val, ret |-> 0,
                          msg |-> OverflowMsg, oob |-> FALSE]
              /\ UNCHANGED <<m, needle>>
    /\ UNCHANGED mainVars
    /\ UNCHANGED keyVars

(* The values a read of s->m[i] can deliver *)
StackRead(i) == IF i \in DOMAIN m THEN {m[i]} ELSE IndetVals

(* uint16_t pop_stack(struct stack *s) *)
pop_stack ==
    /\ IF needle > 0
         THEN /\ \E popped \in StackRead(needle) :
                    last' = [fn |-> "pop", arg |-> 0, ret |-> popped, msg |-> "",
                             oob |-> ~(needle < STACK_LEN)]
              /\ needle' = needle - 1
              /\ m' = m
         ELSE /\ last' = [fn |-> "pop", arg |-> 0, ret |-> 0,
                          msg |-> UnderflowMsg, oob |-> FALSE]
              /\ UNCHANGED <<m, needle>>
    /\ UNCHANGED mainVars
    /\ UNCHANGED keyVars

NextStack ==
    \/ \E val \in PushVals : push_stack(val)
    \/ pop_stack

(* Any sequence of push_stack and pop_stack calls on an empty stack *)
SpecStack == Init /\ [][NextStack]_vars

----------------------------------------------------------------------------
(* The font loader on its own: add_fonts_to_mem(mem) applied to memories   *)
(* that already hold bytes at the addresses in Probe.                      *)

InitFonts ==
    /\ loc = "add_fonts"
    /\ mem \in [Probe -> {0, 255}]
    /\ MainLocals
    /\ StackIdle
    /\ KeysIdle

NextFonts == add_fonts_to_mem

SpecFonts == InitFonts /\ [][NextFonts]_vars

(* The decoder on its own: the decode block of the loop body applied to    *)
(* instruction words built from the nibbles in Nibbles.                    *)

FontRegion == { FontAddr(k, j) : k \in 0..(FONT_GLYPHS - 1), j \in 0..(FONT_ROWS - 1) }

FontMem == [a \in FontRegion |->
              LET k == (a - FONT_BASE) \div FONT_ROWS
                  j == (a - FONT_BASE) % FONT_ROWS
              IN  FontByte(k, j)]

DecodeWords == { a * 4096 + b * 256 + c * 16 + d : a, b, c, d \in Nibbles }

InitDecode ==
    /\ loc = "decode"
    /\ mem = FontMem
    /\ instr \in DecodeWords
    /\ ii = FONT_GLYPHS /\ jj = 0
    /\ display = <<>>
    /\ delay_timer = 0 /\ sound_timer = 0 /\ reg_index = 0
    /\ pc = NextPc(PC_START)
    /\ interpret = 1
    /\ quit = TRUE
    /\ e = "SDL_QUIT"
    /\ op = 0 /\ X = 0 /\ Y = 0 /\ N = 0 /\ NN = 0 /\ NNN = 0
    /\ console = ""
    /\ retval = -1
    /\ window = "destroyed"
    /\ StackIdle
    /\ KeysIdle

NextDecode == main_decode

SpecDecode == InitDecode /\ [][NextDecode]_vars

----------------------------------------------------------------------------
(* Properties *)

PushStep == last'.fn = "push"
PopStep == last'.fn = "pop"

(* C1: a pop on a non-empty stack returns the most recently pushed value   *)
(* that has not been popped yet, i.e. the cell below the needle, and       *)
(* lowers the depth by exactly 1.                                          *)
C1_StackLIFO ==
    [][(PopStep /\ needle > 0) =>
          (last'.ret = m[needle - 1] /\ needle' = needle - 1 /\ m' = m)]_vars

(* C2: a push below depth 12 stores its value on top and raises the depth  *)
(* by 1; a push at depth 12 or more fails with the overflow outcome and    *)
(* leaves the stored values and the depth unchanged.                       *)
C2_StackCapacity ==
    [][PushStep =>
          IF needle < STACK_CAPACITY
            THEN /\ needle' = needle + 1
                 /\ m' = Store(m, needle, last'.arg)
                 /\ last'.msg = ""
            ELSE /\ needle' = needle
                 /\ m' = m
                 /\ last'.msg = OverflowMsg]_vars

(* C3: a pop on an empty stack leaves the depth at 0 and the stored values *)
(* unchanged, and hands its caller a result that is none of the addresses  *)
(* a successful pop can return.                                            *)
C3_StackUnderflow ==
    [][(PopStep /\ needle = 0) =>
          (needle' = 0 /\ m' = m /\ last'.ret \notin 0..UINT16_MAX)]_vars

(* C4: whenever the loop is about to fetch, both addresses it reads, pc    *)
(* and pc + 1, lie below the memory size.                                  *)
C4_FetchInBounds ==
    loc = "fetch" => (pc < mem_len /\ pc + 1 < mem_len)

(* C5: the loop is entered with pc = 0x200; every fetch forms the word     *)
(* big-endian from the memory bytes at pc and pc + 1 and leaves pc         *)
(* increased by exactly 2 for the decode and execute that follow.          *)
C5_FetchStep ==
    /\ [](loc = "loop_entry" => pc = 512)
    /\ [][loc = "fetch" =>
            /\ loc' = "decode"
            /\ pc \in 0..(mem_len - 1) /\ (pc + 1) \in 0..(mem_len - 1)
            /\ instr' = MemAt(pc) * 256 + MemAt(pc + 1)
            /\ pc' = pc + 2]_vars

(* C6: after decoding, X and Y are the second and third nibble of the word *)
(* shifted down to 0..15, and N, NN, NNN and op are the masked word.       *)
C6_DecoderFields ==
    loc = "execute" =>
        /\ X = (instr % 4096) \div 256 /\ X \in 0..15
        /\ Y = (instr % 256) \div 16 /\ Y \in 0..15
        /\ N = instr % 16
        /\ NN = instr % 256
        /\ NNN = instr % 4096
        /\ op = (instr \div 4096) * 4096

(* C7: executing a word that is no implemented instruction produces an     *)
(* outcome the caller can observe: a printed report, the end of the loop   *)
(* or the return of main().                                                *)
C7_UnknownSurfaced ==
    [][(loc = "execute" /\ instr # 224) =>
          (console' # console \/ interpret' = 0 \/ retval' # retval)]_vars

GlyphsInPlace ==
    \A k \in 0..15, j \in 0..4 : MemAt(80 + 5 * k + j) = fontData[k + 1][j + 1]

(* C8: when add_fonts_to_mem has finished, mem[0x50 + 5k + j] holds        *)
(* fontData[k][j] for every glyph k and row j, and no step of it changes   *)
(* a byte outside 0x50..0x9F.                                              *)
C8_FontLoad ==
    /\ [](loc = "sdl_init" => GlyphsInPlace)
    /\ [][loc = "add_fonts" =>
            \A a \in (0..4095) \ (80..159) : MemAt(a)' = MemAt(a)]_vars

C8_Witness ==
    /\ loc = "sdl_init"
    /\ MemAt(79) = 255 /\ MemAt(160) = 255 /\ MemAt(512) = 255
    /\ 80 \in DOMAIN mem

(* C9: from the end of add_fonts_to_mem on, through the loop and the store *)
(* after it, up to the return of main(), 0x50..0x9F holds the font table.  *)
C9_FontImmutable ==
    loc # "add_fonts" => GlyphsInPlace

C9_Witness ==
    loc = "returned" /\ retval = 0 /\ TAIL_ADDR \in DOMAIN mem

(* C10: in every state of the interpreter loop pc is even, also after the  *)
(* 16-bit wraparound of pc += 2.                                           *)
C10_PcAligned ==
    loc \in {"loop_entry", "fetch", "decode", "execute", "after_loop"} => pc % 2 = 0

C10_Witness ==
    loc = "fetch" /\ pc = 0

LoopLocs == {"fetch", "decode", "execute"}

(* C11: no step of the fetch-decode-execute loop lowers delay_timer or     *)
(* sound_timer, and both stay in 0..255.                                   *)
C11_TimersDecoupled ==
    /\ [](delay_timer \in 0..255 /\ sound_timer \in 0..255)
    /\ [][(loc \in LoopLocs) =>
            (delay_timer' >= delay_timer /\ sound_timer' >= sound_timer)]_vars

C11_Witness ==
    /\ loc = "fetch" /\ pc = 516
    /\ delay_timer = 0 /\ sound_timer = 0

----------------------------------------------------------------------------
(* The execute step on its own: the switch applied to a decoded word and   *)
(* to displays that hold any pattern on the pixels in PixelProbe.          *)

InitExecute ==
    /\ loc = "execute"
    /\ mem = FontMem
    /\ instr \in ExecWords
    /\ op = dec_op(instr) /\ X = dec_X(instr) /\ Y = dec_Y(instr)
    /\ N = dec_N(instr) /\ NN = dec_NN(instr) /\ NNN = dec_NNN(instr)
    /\ display \in [PixelProbe -> {0, 1}]
    /\ ii = FONT_GLYPHS /\ jj = 0
    /\ delay_timer = 0 /\ sound_timer = 0 /\ reg_index = 0
    /\ pc = NextPc(PC_START)
    /\ interpret = 1
    /\ quit = TRUE
    /\ e = "SDL_QUIT"
    /\ console = ""
    /\ retval = -1
    /\ window = "destroyed"
    /\ StackIdle
    /\ KeysIdle

NextExecute == main_execute

SpecExecute == InitExecute /\ [][NextExecute]_vars

WindowFailed == console \in {"SDL_Init failed", "SDL_CreateWindow failed"}

(* C13: a run whose window initialisation failed still reaches the         *)
(* fetch-decode-execute loop: main() has not returned without having       *)
(* fetched an instruction.                                                 *)
C13_Headless ==
    (WindowFailed /\ loc = "returned") => pc # PC_START

(* C14: the needle moves by exactly one without wrapping, a push stores at *)
(* an index below 4096, and a pop reads an index below 4096 that an        *)
(* earlier push has stored.                                                *)
C14_StackIndexSafe ==
    [][/\ PushStep => (needle < STACK_LEN /\ needle' = needle + 1)
       /\ (PopStep /\ needle > 0) =>
             (needle < STACK_LEN /\ needle \in DOMAIN m /\ needle' = needle - 1)]_vars

PollLocs == {"event_loop", "poll"}
PastPolling == {"loop_entry", "fetch", "decode", "execute", "after_loop", "crashed"}

(* C15: the loop fetches only after SDL_QUIT has been seen and the window  *)
(* has been destroyed, and from the loop on no host event is polled again. *)
C15_EventsBeforeInstructions ==
    /\ []((loc \in LoopLocs) => (quit /\ window = "destroyed"))
    /\ [][(loc \in PastPolling) => (loc' \notin PollLocs /\ e' = e /\ quit' = quit)]_vars

C15_Witness ==
    /\ loc = "decode" /\ pc = 514
    /\ quit /\ e = "SDL_KEYDOWN" /\ window = "destroyed"

----------------------------------------------------------------------------
(* main() as a running process: it takes its next step whenever it has one *)
SpecFair == Spec /\ WF_vars(Next)

(* C16: once the loop has been entered (a fetch is due), the run           *)
(* eventually ends: interpret is 0 and main() has returned 0.              *)
C16_Terminates ==
    (loc = "fetch") ~> (loc = "returned" /\ retval = 0 /\ interpret = 0)

----------------------------------------------------------------------------
(* uint8_t char_to_val(int userInput): the switch, case by case *)

UnsupportedMsg == "DEBUG: unsupported key pressed"

char_to_val_shifted(c) ==
    CASE c = 49 -> 1
      [] c = 50 -> 2
      [] c = 51 -> 3
      [] c = 52 -> 4
      [] c = 113 -> 5
      [] c = 119 -> 6
      [] c = 101 -> 7
      [] c = 114 -> 8
      [] c = 97 -> 9
      [] c = 115 -> 10
      [] c = 100 -> 11
      [] c = 102 -> 12
      [] c = 122 -> 13
      [] c = 120 -> 14
      [] c = 99 -> 15
      [] c = 118 -> 16
      [] OTHER -> 16

char_to_val(c) ==
    CASE c = 49 -> 0       \* '1'
      [] c = 50 -> 1       \* '2'
      [] c = 51 -> 2       \* '3'
      [] c = 52 -> 3       \* '4'
      [] c = 113 -> 4      \* 'q'
      [] c = 119 -> 5      \* 'w'
      [] c = 101 -> 6      \* 'e'
      [] c = 114 -> 7      \* 'r'
      [] c = 97 -> 8       \* 'a'
      [] c = 115 -> 9      \* 's'
      [] c = 100 -> 10     \* 'd'
      [] c = 102 -> 11     \* 'f'
      [] c = 122 -> 12     \* 'z'
      [] c = 120 -> 13     \* 'x'
      [] c = 99 -> 14      \* 'c'
      [] c = 118 -> 15     \* 'v'
      [] OTHER -> 16       \* default

SupportedKeys == {49, 50, 51, 52, 113, 119, 101, 114, 97, 115, 100, 102, 122, 120, 99, 118}

KeyCodes == (-1..MaxKeyCode) \cup BigKeyCodes

(* One call of char_to_val with the key code c *)
call_char_to_val(c) ==
    /\ userInput' = c
    /\ keyval' = char_to_val(c)
    /\ keymsg' = IF c \in SupportedKeys THEN "" ELSE UnsupportedMsg
    /\ UNCHANGED mainVars
    /\ UNCHANGED stackVars

NextKeys == \E c \in KeyCodes : call_char_to_val(c)

SpecKeys == Init /\ [][NextKeys]_vars

(* The keypad layout 1 2 3 4 / q w e r / a s d f / z x c v as characters *)
KeyLayout == <<49, 50, 51, 52, 113, 119, 101, 114, 97, 115, 100, 102, 122, 120, 99, 118>>

(* C17: after a call, a key at position i of the layout has given the code *)
(* i - 1, so the 16 keys give the 16 codes 0..15 one-to-one, and every     *)
(* other input has given 16.                                               *)
C17_KeyMapping ==
    keymsg # "" \/ userInput # 0 =>
        /\ \A i \in 1..16 : userInput = KeyLayout[i] => keyval = i - 1
        /\ (\A i \in 1..16 : userInput # KeyLayout[i]) => keyval = 16
        /\ keyval \in 0..15 <=> (\E i \in 1..16 : userInput = KeyLayout[i])

C17_Witness ==
    userInput = 118 /\ keyval = 15 /\ keymsg = ""

====
